---- MODULE Spec2Model ----
(***************************************************************************)
(* OmniHear gesture core: the playback sequencer of RobotAvatar and the    *)
(* target-pose logic of RobotHand.                                         *)
(*                                                                         *)
(* Strings are sequences of one-character strings, so that startsWith,     *)
(* split, toUpperCase and toLowerCase are computed and not assumed.        *)
(* Angles and curls are integers in thousandths (0.1 is 100, 1.5 is 1500); *)
(* the wall clock (Date.now) and the elapsed clock (clock.getElapsedTime)  *)
(* are in milliseconds.                                                    *)
(***************************************************************************)
EXTENDS Integers, Sequences, FiniteSets, TLC

\* ------------------------------------------------------------------ bounds
\* total number of tokens ever enqueued
MaxEnqueued == 3
\* longest gloss a single triggerAnimation call appends
MaxBatch == 2
\* no frame is taken once the wall clock would pass StartWall + MaxWall
MaxWall == 4000
\* value of Date.now() at construction
StartWall == 1000
\* in the liveness specification, input stops this long after construction
EnqueueWindow == 800

\* real time between two frames, and between two clock reads of one frame
FrameSteps == {400, 800}
ReadDrift == {0, 400}

\* ----------------------------------------------------------------- strings
LowerChars == <<"a","b","c","d","e","f","g","h","i","j","k","l","m",
                "n","o","p","q","r","s","t","u","v","w","x","y","z">>
UpperChars == <<"A","B","C","D","E","F","G","H","I","J","K","L","M",
                "N","O","P","Q","R","S","T","U","V","W","X","Y","Z">>
DigitChars == <<"0","1","2","3","4","5","6","7","8","9">>

\* the case mappings of String.toUpperCase / toLowerCase, character by character
UpperOf == [c \in {LowerChars[i] : i \in 1..26} |->
               UpperChars[CHOOSE i \in 1..26 : LowerChars[i] = c]]
LowerOf == [c \in {UpperChars[i] : i \in 1..26} |->
               LowerChars[CHOOSE i \in 1..26 : UpperChars[i] = c]]

toUpperCase(s) ==
    [i \in 1..Len(s) |-> IF s[i] \in DOMAIN UpperOf THEN UpperOf[s[i]] ELSE s[i]]

toLowerCase(s) ==
    [i \in 1..Len(s) |-> IF s[i] \in DOMAIN LowerOf THEN LowerOf[s[i]] ELSE s[i]]

startsWith(s, p) == Len(s) >= Len(p) /\ SubSeq(s, 1, Len(p)) = p

\* s.split(sep): the pieces of s between the occurrences of the character sep
split(s, sep) ==
    LET seps == {i \in 1..Len(s) : s[i] = sep}
        n == Cardinality(seps)
        \* position of the k-th separator; 0 before the first piece, Len(s)+1 after the last
        cut(k) == IF k = 0 THEN 0
                  ELSE IF k > n THEN Len(s) + 1
                  ELSE CHOOSE i \in seps : Cardinality({j \in seps : j < i}) = k - 1
    IN  [k \in 1..(n + 1) |-> SubSeq(s, cut(k - 1) + 1, cut(k) - 1)]

\* String.charCodeAt for the characters the model uses
CharCodes ==
    [c \in {UpperChars[i] : i \in 1..26} \cup {LowerChars[i] : i \in 1..26}
            \cup {DigitChars[i] : i \in 1..10} \cup {"_", "#"} |->
        IF \E i \in 1..26 : UpperChars[i] = c
        THEN 64 + (CHOOSE i \in 1..26 : UpperChars[i] = c)
        ELSE IF \E i \in 1..26 : LowerChars[i] = c
        THEN 96 + (CHOOSE i \in 1..26 : LowerChars[i] = c)
        ELSE IF \E i \in 1..10 : DigitChars[i] = c
        THEN 47 + (CHOOSE i \in 1..10 : DigitChars[i] = c)
        ELSE IF c = "_" THEN 95
        ELSE 35]

charCode(c) == CharCodes[c]

IDLE == <<"I","D","L","E">>
POSE == <<"P","O","S","E">>
HELLO == <<"H","E","L","L","O">>
CHAR_ == <<"C","H","A","R","_">>
CHAR_A == CHAR_ \o <<"A">>
CHAR_B == CHAR_ \o <<"B">>
CHAR_HASH == CHAR_ \o <<"#">>

\* the tokens the gloss stage hands to the sequencer in this model
Tokens == {HELLO, CHAR_A, CHAR_B, CHAR_HASH}

\* NaN: a value no pose computation yields, told apart by isNaN only.  A field
\* read off a value that lacks it (undefined) turns into NaN in arithmetic.
NaN == 0 - 1000000000
isNaN(x) == x = NaN
Undefined == NaN

\* ------------------------------------------------------------ pose library
Fingers == {"thumb", "index", "middle", "ring", "pinky"}

Curls(t, i, m, r, p) == [thumb |-> t, index |-> i, middle |-> m, ring |-> r, pinky |-> p]

ASL_ALPHABET ==
    [k \in {LowerChars[i] : i \in 1..26} \cup {DigitChars[i] : i \in 1..10} |->
        CASE k = "a" -> Curls(100, 1500, 1500, 1500, 1500)
          [] k = "b" -> Curls(1500, 0, 0, 0, 0)
          [] k = "c" -> Curls(500, 500, 500, 500, 500)
          [] k = "d" -> Curls(1500, 0, 1500, 1500, 1500)
          [] k = "e" -> Curls(1500, 1500, 1500, 1500, 1500)
          [] k = "f" -> Curls(1500, 1200, 0, 0, 0)
          [] k = "g" -> Curls(500, 200, 1500, 1500, 1500)
          [] k = "h" -> Curls(1500, 200, 200, 1500, 1500)
          [] k = "i" -> Curls(1400, 1500, 1500, 1500, 0)
          [] k = "j" -> Curls(1400, 1500, 1500, 1500, 0)
          [] k = "k" -> Curls(500, 0, 500, 1500, 1500)
          [] k = "l" -> Curls(0, 0, 1500, 1500, 1500)
          [] k = "m" -> Curls(1200, 1200, 1200, 1200, 1500)
          [] k = "n" -> Curls(1200, 1200, 1200, 1500, 1500)
          [] k = "o" -> Curls(1200, 1200, 1200, 1200, 1200)
          [] k = "p" -> Curls(500, 500, 0, 1500, 1500)
          [] k = "q" -> Curls(500, 500, 1500, 1500, 1500)
          [] k = "r" -> Curls(1500, 100, 100, 1500, 1500)
          [] k = "s" -> Curls(1200, 1400, 1400, 1400, 1400)
          [] k = "t" -> Curls(500, 1200, 1500, 1500, 1500)
          [] k = "u" -> Curls(1500, 0, 0, 1500, 1500)
          [] k = "v" -> Curls(1500, 0, 0, 1500, 1500)
          [] k = "w" -> Curls(1200, 0, 0, 0, 1500)
          [] k = "x" -> Curls(1200, 800, 1500, 1500, 1500)
          [] k = "y" -> Curls(0, 1500, 1500, 1500, 0)
          [] k = "z" -> Curls(1200, 0, 1500, 1500, 1500)
          [] k = "0" -> Curls(1200, 1200, 1200, 1200, 1200)
          [] k = "1" -> Curls(1500, 0, 1500, 1500, 1500)
          [] k = "2" -> Curls(1500, 0, 0, 1500, 1500)
          [] k = "3" -> Curls(0, 0, 0, 1500, 1500)
          [] k = "4" -> Curls(1500, 0, 0, 0, 0)
          [] k = "5" -> Curls(0, 0, 0, 0, 0)
          [] k = "6" -> Curls(0, 1500, 1500, 1500, 0)
          [] k = "7" -> Curls(0, 1500, 1500, 0, 1500)
          [] k = "8" -> Curls(0, 1500, 0, 1500, 1500)
          [] OTHER   -> Curls(0, 800, 1500, 1500, 1500)]

\* property names an object literal inherits from Object.prototype; the one a
\* lower-cased, underscore-free key can spell is "constructor" (a function)
Inherited == {<<"c","o","n","s","t","r","u","c","t","o","r">>}

\* whether ASL_ALPHABET[key] is truthy: an entry of the table, or an inherited
\* property of the object
HasPose(key) ==
    \/ Len(key) = 1 /\ key[1] \in DOMAIN ASL_ALPHABET
    \/ key \in Inherited

\* ASL_ALPHABET[key] as poseHand reads it: the five curls of an entry; of an
\* inherited property the five fields are undefined
Lookup(key) ==
    IF key \in Inherited THEN [f \in Fingers |-> Undefined]
    ELSE ASL_ALPHABET[key[1]]

\* ------------------------------------------------------------- Math.sin
\* Math.sin of an angle given in thousandths of a radian, in thousandths
\* (Bhaskara's rational approximation on half periods of 3.14 rad)
HalfSin(c) == (16000 * c * (314 - c)) \div (492980 - 4 * c * (314 - c))

sin(x) ==
    LET c == (x \div 10) % 628
    IN  IF c <= 314 THEN HalfSin(c) ELSE 0 - HalfSin(c - 314)

\* ---------------------------------------------------------------- numbers
\* bounds of the hand-level specification: ticks, triggerAnimation / poseHand
\* calls, and writes of an invalid number into the current pose
MaxHandTicks == 4
MaxHandTriggers == 2
MaxCorrupt == 1

\* The current pose and the skeleton are kept in units of 1/Scale thousandths,
\* which makes the factor 0.25 exact for MaxHandTicks interpolation steps.
Scale == 4 ^ MaxHandTicks
ToFine(v) == IF isNaN(v) THEN NaN ELSE v * Scale

\* lerp(start, end, amt), amt in thousandths
lerp(start, end, amt) ==
    IF isNaN(start) \/ isNaN(end) THEN NaN
    ELSE ((1000 - amt) * start + amt * end) \div 1000

\* the values Math.random() returns in the model, in thousandths
RandomDraws == {0, 900}
KeyFingers == {"index", "middle", "ring", "pinky"}
\* the draws of one updateLogic call, one per finger of the KEYBOARD case:
\* all low, all high, or the index finger apart from the rest
NoDraws == [f \in KeyFingers |-> 0]
Draws ==
    {[f \in KeyFingers |-> r] : r \in RandomDraws}
        \cup {[f \in KeyFingers |-> IF f = "index" THEN 900 ELSE 0]}

\* ---------------------------------------------------------------- RobotHand
DANCE == <<"D","A","N","C","E">>
KEYBOARD == <<"K","E","Y","B","O","A","R","D">>
HOUSE == <<"H","O","U","S","E">>
HOME == <<"H","O","M","E">>
SCHOOL == <<"S","C","H","O","O","L">>
BIG == <<"B","I","G">>
\* tags the catalog does not list
XYZZY == <<"X","Y","Z","Z","Y">>
QUX == <<"Q","U","X">>
ZORK == <<"Z","O","R","K">>
WOMBAT == <<"W","O","M","B","A","T">>

\* a hand after construction: tag, trigger timestamp, target pose, current pose
\* and the skeleton (wrist joint rotation, three segment joints per finger)
NewHand ==
    [animState |-> IDLE, animStartTime |-> 0,
     targetState |-> [wristRot |-> <<0, 0, 0>>, fingerCurls |-> Curls(0, 0, 0, 0, 0)],
     currentState |-> [wristRot |-> <<0, 0, 0>>, fingerCurls |-> Curls(0, 0, 0, 0, 0)],
     mesh |-> [wrist |-> <<0, 0, 0>>, segments |-> [f \in Fingers |-> <<0, 0, 0>>]]]

\* the part of a hand the sequencer's state keeps: tag, timestamp and target.
\* The current pose and the skeleton follow the target and feed nothing back.
Steering(hand) ==
    [animState |-> hand.animState, animStartTime |-> hand.animStartTime,
     targetState |-> hand.targetState]

Steered(s) ==
    [NewHand EXCEPT !.animState = s.animState, !.animStartTime = s.animStartTime,
                    !.targetState = s.targetState]

setFace(hand, finger, curl) ==
    [hand EXCEPT !.targetState.fingerCurls[finger] = curl]

setWrist(hand, x, y, z) ==
    [hand EXCEPT !.targetState.wristRot = <<x, y, z>>]

\* a poseHand that leaves the wrist level
poseHand_levelWrist(hand, pose) ==
    LET h0 == [hand EXCEPT !.animState = POSE]
    IN  setWrist([h0 EXCEPT !.targetState.fingerCurls =
                      [f \in Fingers |-> pose[f]]], 0, 0, 0)

poseHand(hand, pose) ==
    LET h0 == [hand EXCEPT !.animState = POSE]
        h1 == setFace(h0, "thumb", pose["thumb"])
        h2 == setFace(h1, "index", pose["index"])
        h3 == setFace(h2, "middle", pose["middle"])
        h4 == setFace(h3, "ring", pose["ring"])
        h5 == setFace(h4, "pinky", pose["pinky"])
    IN  setWrist(h5, 0 - 200, 0, 0)

\* a trigger that sets the tag and records no timestamp
HandTriggerAnimation_noStamp(hand, type, dateNow) ==
    [hand EXCEPT !.animState = type]

\* a trigger that restarts the gesture from an open, level hand
HandTriggerAnimation_restart(hand, type, dateNow) ==
    [hand EXCEPT !.animState = type, !.animStartTime = dateNow,
                 !.targetState = [wristRot |-> <<0, 0, 0>>,
                                  fingerCurls |-> Curls(0, 0, 0, 0, 0)]]

\* RobotHand.triggerAnimation(type), dateNow the value Date.now() returns
HandTriggerAnimation(hand, type, dateNow) ==
    [hand EXCEPT !.animState = type, !.animStartTime = dateNow]

\* Math.abs
Abs(v) == IF v < 0 THEN 0 - v ELSE v

AllFingers(hand, curl) ==
    [hand EXCEPT !.targetState.fingerCurls = Curls(curl, curl, curl, curl, curl)]

flatHand(hand) == AllFingers(hand, 0)
fist(hand) == AllFingers(hand, 1500)
pointIndex(hand) == setFace(AllFingers(hand, 1500), "index", 0)
thumbsUp(hand) == setFace(AllFingers(hand, 1500), "thumb", 0)

\* an idle sway that moves the wrist and leaves the curls where they were
IdleSway_wristOnly(hand, time) ==
    LET sway == (sin((time * 3) \div 2) * 50) \div 1000
    IN  setWrist(hand, sway \div 2, 0, sway)

\* the IDLE / POSE branch: gentle sway, targets overwritten every tick
IdleSway(hand, time) ==
    LET sway == (sin((time * 3) \div 2) * 50) \div 1000
        h1 == setWrist(hand, sway \div 2, 0, sway)
        other == 100 + (sin(time + 2000) * 50) \div 1000
        thumb == 100 + (sin(time) * 50) \div 1000
    IN  [h1 EXCEPT !.targetState.fingerCurls = Curls(thumb, other, other, other, other)]

\* a HELLO wave that restarts at the trigger timestamp
HelloGesture_sinceTrigger(hand, time) ==
    LET since == time - (hand.animStartTime - StartWall)
        helloMove == (sin(since * 5) * 400) \div 1000
    IN  flatHand(setWrist(hand, helloMove - 300, 0, (helloMove * 300) \div 1000))

\* case 'HELLO'
HelloGesture(hand, time) ==
    LET helloMove == (sin(time * 5) * 400) \div 1000
    IN  flatHand(setWrist(hand, helloMove - 300, 0, (helloMove * 300) \div 1000))

\* case 'HOUSE': case 'SCHOOL': case 'BIG': the body under the BIG label
BigGesture(hand, time) ==
    LET bigSpread == (sin(time * 3) * 300) \div 1000
    IN  flatHand(setWrist(hand, 0, 0, bigSpread))

\* case 'HOUSE': case 'HOME': roof shape
HouseGesture(hand, time) ==
    LET houseAngle == (sin(time * 3) * 200) \div 1000
    IN  flatHand(setWrist(hand, 400 + houseAngle, 0, 300))

\* case 'SCHOOL': clapping motion
SchoolGesture(hand, time) ==
    LET schoolClap == Abs(sin(time * 8))
    IN  flatHand(setWrist(hand, (schoolClap * 400) \div 1000, 0, 0))

\* a DANCE whose index target follows where the index finger is
DanceGesture_fromCurrent(hand, time) ==
    LET danceMove == (sin(time * 7) * 500) \div 1000
        h1 == setWrist(hand, danceMove, danceMove \div 2, 0)
        reached == IF isNaN(hand.currentState.fingerCurls["index"]) THEN 0
                   ELSE hand.currentState.fingerCurls["index"] \div Scale
    IN  setFace(setFace(h1, "index", 500 + reached), "middle", 500)

\* case 'DANCE': the wrist, and the index and middle curls only
DanceGesture(hand, time) ==
    LET danceMove == (sin(time * 7) * 500) \div 1000
        h1 == setWrist(hand, danceMove, danceMove \div 2, 0)
    IN  setFace(setFace(h1, "index", 500), "middle", 500)

\* case 'KEYBOARD': four curls from Math.random(), one draw each
KeyboardGesture(hand, time, random) ==
    LET keyType == (sin(time * 12) * 100) \div 1000
        h1 == setFace(setWrist(hand, 0, 0, keyType), "thumb", 500)
        jitter(f) == 200 + (random[f] * 300) \div 1000
    IN  [h1 EXCEPT !.targetState.fingerCurls =
            [f \in Fingers |-> IF f \in KeyFingers THEN jitter(f) ELSE @[f]]]

\* a fallback whose speed does not depend on the tag
DefaultGesture_oneSpeed(hand, time) ==
    LET motion == (sin(time * 4) * 500) \div 1000
        firstChar == charCode(hand.animState[1]) % 4
    IN  IF firstChar = 0 THEN flatHand(setWrist(hand, motion, 0, motion \div 2))
        ELSE IF firstChar = 1 THEN pointIndex(setWrist(hand, 0, motion \div 2, motion))
        ELSE IF firstChar = 2 THEN fist(setWrist(hand, (motion * 700) \div 1000, 0, 0))
        ELSE thumbsUp(setWrist(hand, 0, motion, (motion * 300) \div 1000))

\* a fallback that moves the wrist and leaves the curls where they were
DefaultGesture_wristOnly(hand, time) ==
    LET motion == (sin(time * (4 + (Len(hand.animState) % 5))) * 500) \div 1000
        firstChar == charCode(hand.animState[1]) % 4
    IN  IF firstChar = 0 THEN setWrist(hand, motion, 0, motion \div 2)
        ELSE IF firstChar = 1 THEN setWrist(hand, 0, motion \div 2, motion)
        ELSE IF firstChar = 2 THEN setWrist(hand, (motion * 700) \div 1000, 0, 0)
        ELSE setWrist(hand, 0, motion, (motion * 300) \div 1000)

\* default: procedural fallback derived from the tag string
DefaultGesture(hand, time) ==
    LET word == hand.animState
        wordHash == Len(word) % 5
        speed == 4 + wordHash
        motion == (sin(time * speed) * 500) \div 1000
        firstChar == charCode(word[1]) % 4
    IN  IF firstChar = 0 THEN flatHand(setWrist(hand, motion, 0, motion \div 2))
        ELSE IF firstChar = 1 THEN pointIndex(setWrist(hand, 0, motion \div 2, motion))
        ELSE IF firstChar = 2 THEN fist(setWrist(hand, (motion * 700) \div 1000, 0, 0))
        ELSE thumbsUp(setWrist(hand, 0, motion, (motion * 300) \div 1000))

\* RobotHand.updateLogic(time) for the tags of this model; random holds what
\* Math.random() returns during the call.  The case groups of the switch are
\* tried in the order they are written, and the first label equal to the tag
\* selects the body.
updateLogic(hand, time, random) ==
    IF hand.animState = IDLE \/ hand.animState = POSE THEN IdleSway(hand, time)
    ELSE IF hand.animState = HELLO THEN HelloGesture(hand, time)
    ELSE IF hand.animState \in {HOUSE, SCHOOL, BIG} THEN BigGesture(hand, time)
    ELSE IF hand.animState \in {HOUSE, HOME} THEN HouseGesture(hand, time)
    ELSE IF hand.animState = SCHOOL THEN SchoolGesture(hand, time)
    ELSE IF hand.animState = DANCE THEN DanceGesture(hand, time)
    ELSE IF hand.animState = KEYBOARD THEN KeyboardGesture(hand, time, random)
    ELSE DefaultGesture(hand, time)

\* an interpolation that jumps straight to the target
updateLerp_snap(hand) ==
    [hand EXCEPT
        !.currentState.wristRot = [i \in 1..3 |-> ToFine(hand.targetState.wristRot[i])],
        !.currentState.fingerCurls =
            [f \in Fingers |-> ToFine(hand.targetState.fingerCurls[f])]]

\* RobotHand.updateLerp(): factor 0.25 on the three wrist axes and the five curls
updateLerp(hand) ==
    [hand EXCEPT
        !.currentState.wristRot =
            [i \in 1..3 |-> lerp(@[i], ToFine(hand.targetState.wristRot[i]), 250)],
        !.currentState.fingerCurls =
            [f \in Fingers |-> lerp(@[f], ToFine(hand.targetState.fingerCurls[f]), 250)]]

\* the condition of the "Debug NaN" block of update
NaNDetected(hand) ==
    LET r == hand.currentState.wristRot
    IN  isNaN(r[1]) \/ isNaN(r[2]) \/ isNaN(r[3])

\* a NaN block that only logs
resetNaN_logOnly(hand) == hand

\* the "Debug NaN" block: currentState.wristRot.set(0, 0, 0) when an axis is NaN
resetNaN(hand) ==
    IF NaNDetected(hand) THEN [hand EXCEPT !.currentState.wristRot = <<0, 0, 0>>]
    ELSE hand

\* an applyToMesh that bends the fingertip segment only
applyToMesh_tipOnly(hand) ==
    [hand EXCEPT
        !.mesh.wrist = hand.currentState.wristRot,
        !.mesh.segments =
            [f \in Fingers |->
                [i \in 1..3 |-> IF i = 3 THEN hand.currentState.fingerCurls[f]
                                ELSE @[f][i]]]]

\* RobotHand.applyToMesh(): the wrist joint copies the current wrist rotation,
\* every segment of a finger gets that finger's current curl
applyToMesh(hand) ==
    [hand EXCEPT
        !.mesh.wrist = hand.currentState.wristRot,
        !.mesh.segments =
            [f \in Fingers |->
                [i \in 1..3 |-> hand.currentState.fingerCurls[f]]]]

\* RobotHand.update(time)
update(hand, time, random) ==
    applyToMesh(resetNaN(updateLerp(updateLogic(hand, time, random))))

\* RobotHand.update(time) on the steering part of a hand: of the four steps
\* only updateLogic writes a tag or a target, the other three write the
\* current pose and the skeleton
updateSteering(s, time, random) == updateLogic(s, time, random)

\* -------------------------------------------------------------- RobotAvatar
VARIABLES
    animationQueue,       \* string[]
    isAnimating,          \* boolean
    currentAnimationEnd,  \* wall-clock ms
    signDisplay,          \* the #current-sign element, or absent
    leftHand, rightHand,
    wall,                 \* the last value Date.now() returned
    time,                 \* the last value clock.getElapsedTime() returned, ms
    enqueued,             \* history: every token pushed, in push order
    started,              \* history: the tokens startAnimation was called with
    tickNow,              \* history: `now` of the latest frame
    slotStart,            \* history: `now` of the frame that began the latest slot
    prevSlotEnd,          \* history: the end time recorded for the slot before it
    idleSinceDrain,       \* history: a slot ended on an empty queue, none began since
    labels                \* history: what the label showed at each start and drain

avatarVars == <<animationQueue, isAnimating, currentAnimationEnd, signDisplay,
                leftHand, rightHand, wall, time, enqueued,
                started, tickNow, slotStart, prevSlotEnd, idleSinceDrain, labels>>

\* one hand on its own (HandSpec)
VARIABLES
    hand,                 \* a RobotHand
    handTime,             \* the elapsed time of its latest tick, ms
    handTicks,            \* number of ticks so far
    handTriggers,         \* number of triggerAnimation / poseHand calls so far
    corrupted,            \* number of invalid numbers written so far
    consoleErrors,        \* number of console.error calls so far
    lastOp,               \* history: the latest operation on the hand
    nanBefore,            \* history: the components that were NaN before the latest tick
    steady,               \* history: per component, the latest ticks in a row
                          \*          that left its target where it was
    steadyFrom            \* history: its distance to the target before those ticks

handVars == <<hand, handTime, handTicks, handTriggers, corrupted, consoleErrors,
              lastOp, nanBefore, steady, steadyFrom>>

\* the letter lookup on its own (LetterSpec)
VARIABLES
    letterToken,          \* the CHAR_ token looked up last
    letterFound,          \* whether `pose` was truthy
    letterPose            \* the pose handed to poseHand

letterVars == <<letterToken, letterFound, letterPose>>

\* the page and the globals of main.ts (AppSpec)
VARIABLES
    document,             \* the ids of the elements the page holds
    robotAvatar,          \* the global robotAvatar: "null" or "avatar"
    isRunning,            \* the global isRunning
    audioSetUp,           \* setupAudio() has run
    loopStarted,          \* mainLoop() has run and re-arms itself every frame
    uncaught,             \* the message of the error startGame let escape, or ""
    dropped               \* history: text inputs handled while robotAvatar was null

appVars == <<document, robotAvatar, isRunning, audioSetUp, loopStarted,
             uncaught, dropped>>

\* speech recognition as main.ts drives it (MicSpec)
VARIABLES
    isListening,          \* the global isListening
    recognition,          \* the SpeechRecognition object: "idle", "starting"
                          \* (start() called, no start event yet), "running",
                          \* "ending" (no end event yet)
    restartTimer,         \* the 100 ms timer of onend is pending
    pendingChecks,        \* toggleListening calls awaiting checkMicrophonePermission
    sessionError,         \* the error event of the session begun last, or "none"
    lastClick,            \* history: the branch the latest toggle click took
    stopDuringCheck,      \* history: that click was a stop, and a permission
                          \*          check was pending when it came
    stopDuringTimer,      \* history: that click was a stop, and the restart
                          \*          timer was pending when it came
    startFailed,          \* history: a start attempt failed since the latest click
    micOp                 \* history: the latest callback

micVars == <<isListening, recognition, restartTimer, pendingChecks, sessionError,
             lastClick, stopDuringCheck, stopDuringTimer, startFailed, micOp>>

vars == <<avatarVars, handVars, letterVars, appVars, micVars>>

WordDuration == 800
LetterDuration == 400

\* document.getElementById('current-sign'): the element, or null
SignElement(present) == [present |-> present, textContent |-> <<>>, opacity |-> "0"]

showCurrentSign(el, text) ==
    IF el.present THEN [el EXCEPT !.textContent = text, !.opacity = "1"] ELSE el

\* a hide that leaves the label shown
hideCurrentSign_noop(el) == el

hideCurrentSign(el) ==
    IF el.present THEN [el EXCEPT !.opacity = "0"] ELSE el

\* the character a CHAR_ token names: type.split('_')[1].toUpperCase()
CharOf(type) == toUpperCase(split(type, "_")[2])

\* whether startAnimation finds a library pose for the token
IsLetter(type) == startsWith(type, CHAR_)
PoseFound(type) == IsLetter(type) /\ HasPose(toLowerCase(CharOf(type)))

\* a duration that gives every CHAR_ token the letter pace, found or not
SlotDuration_everyLetter(type) ==
    IF IsLetter(type) THEN LetterDuration ELSE WordDuration

\* the value of `duration` at the end of startAnimation
SlotDuration(type) ==
    IF IsLetter(type)
    THEN IF PoseFound(type) THEN LetterDuration ELSE WordDuration
    ELSE WordDuration

\* a label that shows the raw token
DisplayText_rawToken(type) == type

\* the value of `displayText` at the end of startAnimation
DisplayText(type) == IF IsLetter(type) THEN CharOf(type) ELSE type

\* the locals of startAnimation at its end, for each token of the model
StartLocals ==
    [type \in Tokens |->
        [isLetter |-> IsLetter(type),
         found |-> PoseFound(type),
         pose |-> IF PoseFound(type) THEN Lookup(toLowerCase(CharOf(type)))
                  ELSE Curls(0, 0, 0, 0, 0),
         duration |-> SlotDuration(type),
         displayText |-> DisplayText(type)]]

\* a startAnimation that poses the right hand and forgets the left one
startAnimation_leftKept(av, type, dateNow) ==
    LET loc == StartLocals[type]
        right ==
            IF loc.isLetter
            THEN IF loc.found THEN poseHand(av.rightHand, loc.pose) ELSE av.rightHand
            ELSE HandTriggerAnimation(av.rightHand, type, dateNow)
        left ==
            IF loc.isLetter
            THEN av.leftHand
            ELSE HandTriggerAnimation(av.leftHand, type, dateNow)
    IN  [isAnimating |-> TRUE,
         currentAnimationEnd |-> dateNow + loc.duration,
         signDisplay |-> showCurrentSign(av.signDisplay, loc.displayText),
         leftHand |-> left,
         rightHand |-> right]

\* a startAnimation that plays a CHAR_ token without a library pose as a word
startAnimation_missAsWord(av, type, dateNow) ==
    LET loc == StartLocals[type]
        asWord == ~loc.isLetter \/ ~loc.found
        right ==
            IF asWord THEN HandTriggerAnimation(av.rightHand, type, dateNow)
            ELSE poseHand(av.rightHand, loc.pose)
        left ==
            IF asWord THEN HandTriggerAnimation(av.leftHand, type, dateNow)
            ELSE HandTriggerAnimation(av.leftHand, IDLE, dateNow)
    IN  [isAnimating |-> TRUE,
         currentAnimationEnd |-> dateNow + loc.duration,
         signDisplay |-> showCurrentSign(av.signDisplay, loc.displayText),
         leftHand |-> left,
         rightHand |-> right]

\* a startAnimation that hands a word to the right hand only
startAnimation_rightOnlyWord(av, type, dateNow) ==
    LET loc == StartLocals[type]
        right ==
            IF loc.isLetter
            THEN IF loc.found THEN poseHand(av.rightHand, loc.pose) ELSE av.rightHand
            ELSE HandTriggerAnimation(av.rightHand, type, dateNow)
        left ==
            IF loc.isLetter /\ loc.found
            THEN HandTriggerAnimation(av.leftHand, IDLE, dateNow)
            ELSE av.leftHand
    IN  [isAnimating |-> TRUE,
         currentAnimationEnd |-> dateNow + loc.duration,
         signDisplay |-> showCurrentSign(av.signDisplay, loc.displayText),
         leftHand |-> left,
         rightHand |-> right]

\* a startAnimation that moves the hands and the label but does not mark playing
startAnimation_notPlaying(av, type, dateNow) ==
    LET loc == StartLocals[type]
        right ==
            IF loc.isLetter
            THEN IF loc.found THEN poseHand(av.rightHand, loc.pose) ELSE av.rightHand
            ELSE HandTriggerAnimation(av.rightHand, type, dateNow)
        left ==
            IF loc.isLetter
            THEN IF loc.found
                 THEN HandTriggerAnimation(av.leftHand, IDLE, dateNow)
                 ELSE av.leftHand
            ELSE HandTriggerAnimation(av.leftHand, type, dateNow)
    IN  [isAnimating |-> av.isAnimating,
         currentAnimationEnd |-> dateNow + loc.duration,
         signDisplay |-> showCurrentSign(av.signDisplay, loc.displayText),
         leftHand |-> left,
         rightHand |-> right]

\* a startAnimation that records the clock reading without adding the duration
startAnimation_noDuration(av, type, dateNow) ==
    LET loc == StartLocals[type]
        right ==
            IF loc.isLetter
            THEN IF loc.found THEN poseHand(av.rightHand, loc.pose) ELSE av.rightHand
            ELSE HandTriggerAnimation(av.rightHand, type, dateNow)
        left ==
            IF loc.isLetter
            THEN IF loc.found
                 THEN HandTriggerAnimation(av.leftHand, IDLE, dateNow)
                 ELSE av.leftHand
            ELSE HandTriggerAnimation(av.leftHand, type, dateNow)
    IN  [isAnimating |-> TRUE,
         currentAnimationEnd |-> dateNow,
         signDisplay |-> showCurrentSign(av.signDisplay, loc.displayText),
         leftHand |-> left,
         rightHand |-> right]

\* RobotAvatar.startAnimation(type) on the avatar fields av;
\* dateNow is what Date.now() returns during the call
startAnimation(av, type, dateNow) ==
    LET loc == StartLocals[type]
        right ==
            IF loc.isLetter
            THEN IF loc.found THEN poseHand(av.rightHand, loc.pose) ELSE av.rightHand
            ELSE HandTriggerAnimation(av.rightHand, type, dateNow)
        left ==
            IF loc.isLetter
            THEN IF loc.found
                 THEN HandTriggerAnimation(av.leftHand, IDLE, dateNow)
                 ELSE av.leftHand
            ELSE HandTriggerAnimation(av.leftHand, type, dateNow)
    IN  [isAnimating |-> TRUE,
         currentAnimationEnd |-> dateNow + loc.duration,
         signDisplay |-> showCurrentSign(av.signDisplay, loc.displayText),
         leftHand |-> left,
         rightHand |-> right]

\* a push that drops a word already waiting in the queue
push_noDuplicates(queue, word) ==
    IF \E i \in 1..Len(queue) : queue[i] = word THEN queue ELSE Append(queue, word)

\* animationQueue.push(word)
push(queue, word) == Append(queue, word)

\* the for-loop of RobotAvatar.triggerAnimation
RECURSIVE PushAll(_, _)
PushAll(queue, glossWords) ==
    IF glossWords = <<>> THEN queue
    ELSE PushAll(push(queue, Head(glossWords)), Tail(glossWords))

\* a shift that hands out the newest element instead of the oldest
shiftResult_newest(queue) == queue[Len(queue)]

\* a shift that empties the queue
shiftRest_all(queue) == <<>>

\* animationQueue.shift(): the element returned and the queue left
shiftResult(queue) == Head(queue)
shiftRest(queue) == Tail(queue)

\* a readiness check that never lets a token through
ReadyForNext_never(playing, queue) == FALSE

\* a readiness check that forgets the playing flag
ReadyForNext_ignoresPlaying(playing, queue) == Len(queue) > 0

\* "check if ready for next animation"
ReadyForNext(playing, queue) == ~playing /\ Len(queue) > 0

\* a finish check that does not look at the end time
SlotFinished_ignoresEnd(playing, now, end) == playing

\* a finish check that never fires
SlotFinished_never(playing, now, end) == FALSE

\* a finish check that fires already at the end time
SlotFinished_atEnd(playing, now, end) == playing /\ now >= end

\* "check if animation finished"
SlotFinished(playing, now, end) == playing /\ now > end

\* a drain that forgets the left hand
returnToIdle_rightOnly(av, dateNow) ==
    [av EXCEPT
        !.signDisplay = hideCurrentSign(av.signDisplay),
        !.rightHand = HandTriggerAnimation(av.rightHand, IDLE, dateNow)]

\* a drain that hides the label and leaves the hands where they are
returnToIdle_labelOnly(av, dateNow) ==
    [av EXCEPT !.signDisplay = hideCurrentSign(av.signDisplay)]

\* "when queue is empty, return to idle": hide the label, both hands to IDLE
returnToIdle(av, dateNow) ==
    [av EXCEPT
        !.signDisplay = hideCurrentSign(av.signDisplay),
        !.leftHand = HandTriggerAnimation(av.leftHand, IDLE, dateNow),
        !.rightHand = HandTriggerAnimation(av.rightHand, IDLE, dateNow)]

\* what a viewer reads off the label: its text while shown, nothing while hidden
VisibleLabel(el) == IF el.present /\ el.opacity = "1" THEN el.textContent ELSE <<>>

\* the glosses englishToASLGloss may return: non-empty token sequences
GlossWords == UNION {[1..n -> Tokens] : n \in 1..MaxBatch}

\* a lookup that finds every id
ContainerFound_always(doc, containerId) == TRUE

\* document.getElementById(containerId) is not null
ContainerFound(doc, containerId) == containerId \in doc

ContainerId == "canvas-container"
SignId == "current-sign"
FullDocument == {ContainerId, SignId}

\* new RobotAvatar(containerId) on the page doc: the error thrown, or the
\* fields of the avatar the expression evaluates to
RobotAvatarConstructor(doc, containerId) ==
    IF ~ContainerFound(doc, containerId)
    THEN [thrown |-> TRUE,
          message |-> "Container " \o containerId \o " not found"]
    ELSE [thrown |-> FALSE,
          animationQueue |-> <<>>,
          isAnimating |-> FALSE,
          currentAnimationEnd |-> 0,
          signDisplay |-> SignElement(SignId \in doc),
          leftHand |-> Steering(NewHand),
          rightHand |-> Steering(NewHand)]

\* the histories of an avatar no frame has run on
NoHistory ==
    /\ wall = StartWall
    /\ time = 0
    /\ enqueued = <<>>
    /\ started = <<>>
    /\ tickNow = StartWall
    /\ slotStart = 0
    /\ prevSlotEnd = 0
    /\ idleSinceDrain = FALSE
    /\ labels = <<>>

\* main.ts before the first click: not listening, recognition at rest
MicInit ==
    /\ isListening = FALSE
    /\ recognition = "idle"
    /\ restartTimer = FALSE
    /\ pendingChecks = 0
    /\ sessionError = "none"
    /\ lastClick = "none"
    /\ stopDuringCheck = FALSE
    /\ stopDuringTimer = FALSE
    /\ startFailed = FALSE
    /\ micOp = "none"

\* the single hand and the letter lookup before their first operation
Untouched ==
    /\ hand = NewHand
    /\ handTime = 0
    /\ handTicks = 0
    /\ handTriggers = 0
    /\ corrupted = 0
    /\ consoleErrors = 0
    /\ lastOp = "new"
    /\ nanBefore = {}
    /\ steady = [c \in Fingers \cup {"x", "y", "z"} |-> 0]
    /\ steadyFrom = [c \in Fingers \cup {"x", "y", "z"} |-> 0]
    /\ letterToken = <<>>
    /\ letterFound = FALSE
    /\ letterPose = Curls(0, 0, 0, 0, 0)

Init ==
    /\ MicInit
    /\ document = FullDocument
    /\ robotAvatar = "avatar"
    /\ isRunning = TRUE
    /\ audioSetUp = TRUE
    /\ loopStarted = TRUE
    /\ uncaught = ""
    /\ dropped = 0
    /\ animationQueue = <<>>
    /\ isAnimating = FALSE
    /\ currentAnimationEnd = 0
    /\ signDisplay = SignElement(TRUE)   \* the page holds a #current-sign element
    /\ leftHand = Steering(NewHand)
    /\ rightHand = Steering(NewHand)
    /\ wall = StartWall
    /\ time = 0
    /\ enqueued = <<>>
    /\ started = <<>>
    /\ tickNow = StartWall
    /\ slotStart = 0
    /\ prevSlotEnd = 0
    /\ idleSinceDrain = FALSE
    /\ labels = <<>>
    /\ hand = NewHand
    /\ handTime = 0
    /\ handTicks = 0
    /\ handTriggers = 0
    /\ corrupted = 0
    /\ consoleErrors = 0
    /\ lastOp = "new"
    /\ nanBefore = {}
    /\ steady = [c \in Fingers \cup {"x", "y", "z"} |-> 0]
    /\ steadyFrom = [c \in Fingers \cup {"x", "y", "z"} |-> 0]
    /\ letterToken = <<>>
    /\ letterFound = FALSE
    /\ letterPose = Curls(0, 0, 0, 0, 0)

\* RobotAvatar.triggerAnimation(input), glossWords = englishToASLGloss(input)
TriggerAnimation(glossWords) ==
    /\ Len(enqueued) + Len(glossWords) <= MaxEnqueued
    /\ animationQueue' = PushAll(animationQueue, glossWords)
    /\ enqueued' = enqueued \o glossWords
    /\ UNCHANGED <<isAnimating, currentAnimationEnd, signDisplay,
                   leftHand, rightHand, wall, time,
                   started, tickNow, slotStart, prevSlotEnd, idleSinceDrain, labels>>
    /\ UNCHANGED <<handVars, letterVars, appVars, micVars>>

\* the body of RobotAvatar.animate() on the avatar fields av and the queue:
\* now and t are the two clock readings at its top, dateNow what Date.now()
\* returns later in the frame.  The result holds the fields after the frame,
\* whether a slot began (and with which token) and whether the queue drained.
animate(av, queue, now, dateNow, t) ==
    LET ready == ReadyForNext(av.isAnimating, queue)
        nextAnim == IF ready THEN shiftResult(queue) ELSE <<>>
        queue1 == IF ready THEN shiftRest(queue) ELSE queue
        starts == ready /\ nextAnim # <<>>
        av1 == IF starts THEN startAnimation(av, nextAnim, dateNow) ELSE av
        finished == SlotFinished(av1.isAnimating, now, av1.currentAnimationEnd)
        drained == finished /\ Len(queue1) = 0
        av2 == IF drained
               THEN returnToIdle([av1 EXCEPT !.isAnimating = FALSE], dateNow)
               ELSE IF finished THEN [av1 EXCEPT !.isAnimating = FALSE]
               ELSE av1
    IN  [animationQueue |-> queue1,
         isAnimating |-> av2.isAnimating,
         currentAnimationEnd |-> av2.currentAnimationEnd,
         signDisplay |-> av2.signDisplay,
         leftHand |-> updateSteering(av2.leftHand, t, NoDraws),
         rightHand |-> updateSteering(av2.rightHand, t, NoDraws),
         starts |-> starts,
         nextAnim |-> nextAnim,
         drained |-> drained]

\* the avatar's fields as animate and startAnimation take them
AvatarFields ==
    [isAnimating |-> isAnimating,
     currentAnimationEnd |-> currentAnimationEnd,
     signDisplay |-> signDisplay,
     leftHand |-> leftHand,
     rightHand |-> rightHand]

\* RobotAvatar.animate(): one frame, d ms after the previous clock read.
\* Both clocks are read at the top of the frame (the elapsed clock counts from
\* construction); Date.now() later in the frame returns now + drift.
\* No frame is modelled once the wall clock would pass limit.
AnimateUntil(d, drift, limit) ==
    LET now == wall + d
        t == now - StartWall
        dateNow == now + drift
    IN  \E f \in {animate(AvatarFields, animationQueue, now, dateNow, t)} :
        /\ dateNow <= limit
        /\ animationQueue' = f.animationQueue
        /\ isAnimating' = f.isAnimating
        /\ currentAnimationEnd' = f.currentAnimationEnd
        /\ signDisplay' = f.signDisplay
        /\ leftHand' = f.leftHand
        /\ rightHand' = f.rightHand
        /\ wall' = IF f.starts \/ f.drained THEN dateNow ELSE now
        /\ time' = t
        /\ started' = IF f.starts THEN Append(started, f.nextAnim) ELSE started
        /\ tickNow' = now
        /\ slotStart' = IF f.starts THEN now ELSE slotStart
        /\ prevSlotEnd' = IF f.starts THEN currentAnimationEnd ELSE prevSlotEnd
        /\ idleSinceDrain' = IF f.drained THEN TRUE
                             ELSE IF f.starts THEN FALSE ELSE idleSinceDrain
        /\ labels' = IF f.starts \/ f.drained
                     THEN Append(labels, VisibleLabel(f.signDisplay))
                     ELSE labels
        /\ UNCHANGED enqueued
        /\ UNCHANGED <<handVars, letterVars, appVars, micVars>>

Animate(d, drift) == AnimateUntil(d, drift, StartWall + MaxWall)

Next ==
    \/ \E glossWords \in GlossWords : TriggerAnimation(glossWords)
    \/ \E d \in FrameSteps, drift \in ReadDrift : Animate(d, drift)

Spec == Init /\ [][Next]_vars

\* ---------------------------------------------------------------- liveness
\* mainLoop re-arms requestAnimationFrame before every animate() call, so frames
\* keep coming.  Input arrives during the first EnqueueWindow ms only, and the
\* clock runs long enough after that for the longest backlog to play out.
Largest(S) == CHOOSE x \in S : \A y \in S : y <= x

\* the longest time from one slot's first frame to the next slot's first frame
SlotSpan == 2 * Largest(FrameSteps) + Largest(ReadDrift) + WordDuration

LiveLimit ==
    StartWall + EnqueueWindow + Largest(FrameSteps) + MaxEnqueued * SlotSpan

EarlyTriggerAnimation(glossWords) ==
    /\ wall <= StartWall + EnqueueWindow
    /\ TriggerAnimation(glossWords)

LiveAnimate(d, drift) == AnimateUntil(d, drift, LiveLimit)

LiveFrame == \E d \in FrameSteps, drift \in ReadDrift : LiveAnimate(d, drift)

LiveNext ==
    \/ \E glossWords \in GlossWords : EarlyTriggerAnimation(glossWords)
    \/ LiveFrame

LiveSpec == Init /\ [][LiveNext]_vars /\ WF_vars(LiveFrame)

\* ------------------------------------------------------- one hand on its own
\* A single RobotHand driven through its public operations, with the elapsed
\* clock advancing between ticks.  currentState is private to the compiler
\* only; HandCorrupt stands for whatever writes an invalid number into it.
HandTags == {DANCE, KEYBOARD, HOUSE, HOME, SCHOOL, XYZZY, QUX, ZORK, WOMBAT}
HandSteps == {350}
PoseKeys == {<<"a">>, <<"b">>}

Comps == {"x", "y", "z"} \cup Fingers
AxisIndex == [x |-> 1, y |-> 2, z |-> 3]
CorruptComps == {"x", "y", "z", "index"}

\* one component of the current pose, of the target pose, of the skeleton
Cur(h, c) ==
    IF c \in Fingers THEN h.currentState.fingerCurls[c]
    ELSE h.currentState.wristRot[AxisIndex[c]]

Tgt(h, c) ==
    IF c \in Fingers THEN h.targetState.fingerCurls[c]
    ELSE h.targetState.wristRot[AxisIndex[c]]

SetCur(h, c, v) ==
    IF c \in Fingers THEN [h EXCEPT !.currentState.fingerCurls[c] = v]
    ELSE [h EXCEPT !.currentState.wristRot[AxisIndex[c]] = v]

\* distance between the current value and the target, in fine units
Dist(h, c) == Abs(ToFine(Tgt(h, c)) - Cur(h, c))

\* hand.triggerAnimation(type); Date.now() runs with the elapsed clock
HandTrigger(type) ==
    /\ handTriggers < MaxHandTriggers
    /\ hand' = HandTriggerAnimation(hand, type, StartWall + handTime)
    /\ handTriggers' = handTriggers + 1
    /\ lastOp' = IF type = hand.animState THEN "retrigger" ELSE "trigger"
    /\ UNCHANGED <<handTime, handTicks, corrupted, consoleErrors, nanBefore,
                   steady, steadyFrom>>
    /\ UNCHANGED <<avatarVars, letterVars, appVars, micVars>>

\* hand.poseHand(ASL_ALPHABET[key])
HandPose(key) ==
    /\ handTriggers < MaxHandTriggers
    /\ hand' = poseHand(hand, Lookup(key))
    /\ handTriggers' = handTriggers + 1
    /\ lastOp' = "pose"
    /\ steady' = [c \in Comps |-> 0]
    /\ steadyFrom' = [c \in Comps |-> 0]
    /\ UNCHANGED <<handTime, handTicks, corrupted, consoleErrors, nanBefore>>
    /\ UNCHANGED <<avatarVars, letterVars, appVars, micVars>>

\* an invalid number lands in one component of the current pose
HandCorrupt(c) ==
    /\ corrupted < MaxCorrupt
    /\ ~isNaN(Cur(hand, c))
    /\ hand' = SetCur(hand, c, NaN)
    /\ corrupted' = corrupted + 1
    /\ lastOp' = "corrupt"
    /\ steady' = [k \in Comps |-> 0]
    /\ steadyFrom' = [k \in Comps |-> 0]
    /\ UNCHANGED <<handTime, handTicks, handTriggers, consoleErrors, nanBefore>>
    /\ UNCHANGED <<avatarVars, letterVars, appVars, micVars>>

\* hand.update(time), d ms after the previous tick, Math.random() returning
\* the draws of random
TickWith(d, random) ==
    LET t == handTime + d
        lerped == updateLerp(updateLogic(hand, t, random))
        clean == \A c \in Comps : ~isNaN(Cur(hand, c))
        held == {c \in Comps : clean /\ Tgt(hand', c) = Tgt(hand, c)}
    IN  /\ handTicks < MaxHandTicks
        /\ hand' = update(hand, t, random)
        /\ handTime' = t
        /\ handTicks' = handTicks + 1
        /\ consoleErrors' = consoleErrors + (IF NaNDetected(lerped) THEN 1 ELSE 0)
        /\ nanBefore' = {c \in Comps : isNaN(Cur(hand, c))}
        /\ lastOp' = "tick"
        /\ steady' = [c \in Comps |-> IF c \in held THEN steady[c] + 1 ELSE 0]
        /\ steadyFrom' = [c \in Comps |->
                            IF c \notin held THEN 0
                            ELSE IF steady[c] = 0 THEN Dist(hand, c)
                            ELSE steadyFrom[c]]
        /\ UNCHANGED <<handTriggers, corrupted>>
        /\ UNCHANGED <<avatarVars, letterVars, appVars, micVars>>

\* Math.random() is called in the KEYBOARD case only
HandTick(d) ==
    IF hand.animState = KEYBOARD THEN \E random \in Draws : TickWith(d, random)
    ELSE TickWith(d, NoDraws)

HandNext ==
    \/ \E type \in HandTags : HandTrigger(type)
    \/ \E key \in PoseKeys : HandPose(key)
    \/ \E c \in CorruptComps : HandCorrupt(c)
    \/ \E d \in HandSteps : HandTick(d)

HandSpec == Init /\ [][HandNext]_vars

\* ------------------------------------------------- the letter lookup alone
\* startAnimation's fingerspelling branch applied to one token: the character
\* it takes from the token, whether the library yields a pose, and the pose.
KeyChars == {"a", "A", "o", "0", "9", "Z", "#"}
LetterKeys ==
    {<<c>> : c \in DOMAIN CharCodes}
        \cup {<<>>, <<"c","o","n","s","t","r","u","c","t","o","r">>}
        \cup {<<c, d>> : c \in KeyChars, d \in KeyChars}

NoPose == Curls(NaN, NaN, NaN, NaN, NaN)

LookupLetter(key) ==
    LET type == CHAR_ \o key
    IN  /\ letterToken' = type
        /\ letterFound' = PoseFound(type)
        /\ letterPose' = IF PoseFound(type) THEN Lookup(toLowerCase(CharOf(type)))
                         ELSE NoPose
        /\ UNCHANGED <<avatarVars, handVars, appVars, micVars>>

LetterNext == \E key \in LetterKeys : LookupLetter(key)

LetterSpec == Init /\ [][LetterNext]_vars

\* ------------------------------------------------------- the page start-up
\* main.ts from the moment the module has loaded: startGame() runs once, the
\* chat handlers are registered before it, the frame loop is armed inside it.
Documents == {{SignId}, FullDocument}
MaxDropped == 2

\* the module-level state of main.ts; the avatar's fields have no owner yet
AppInit ==
    /\ MicInit
    /\ document \in Documents
    /\ robotAvatar = "null"
    /\ isRunning = FALSE
    /\ audioSetUp = FALSE
    /\ loopStarted = FALSE
    /\ uncaught = ""
    /\ dropped = 0
    /\ animationQueue = <<>>
    /\ isAnimating = FALSE
    /\ currentAnimationEnd = 0
    /\ signDisplay = SignElement(FALSE)
    /\ leftHand = Steering(NewHand)
    /\ rightHand = Steering(NewHand)
    /\ NoHistory
    /\ Untouched

\* startGame(): isRunning, the constructor, setupAudio(), and the first
\* mainLoop() call, which arms the loop and runs one frame at elapsed time 0
\* on the empty queue.  When the constructor throws, the statements after it
\* do not run and the error leaves startGame.
StartGame ==
    LET res == RobotAvatarConstructor(document, ContainerId)
    IN  /\ ~isRunning
        /\ isRunning' = TRUE
        /\ IF res.thrown
           THEN /\ uncaught' = res.message
                /\ UNCHANGED <<robotAvatar, audioSetUp, loopStarted, avatarVars>>
           ELSE /\ robotAvatar' = "avatar"
                /\ audioSetUp' = TRUE
                /\ loopStarted' = TRUE
                /\ animationQueue' = res.animationQueue
                /\ isAnimating' = res.isAnimating
                /\ currentAnimationEnd' = res.currentAnimationEnd
                /\ signDisplay' = res.signDisplay
                /\ leftHand' = updateSteering(res.leftHand, 0, NoDraws)
                /\ rightHand' = updateSteering(res.rightHand, 0, NoDraws)
                /\ UNCHANGED <<wall, time, enqueued, started, tickNow, slotStart,
                               prevSlotEnd, idleSinceDrain, labels, uncaught>>
        /\ UNCHANGED <<document, dropped>>
        /\ UNCHANGED <<handVars, letterVars, micVars>>

\* handleTextInput() with a non-empty text, glossWords its gloss
HandleTextInput(glossWords) ==
    IF robotAvatar = "avatar" THEN TriggerAnimation(glossWords)
    ELSE /\ dropped < MaxDropped
         /\ dropped' = dropped + 1
         /\ UNCHANGED <<document, robotAvatar, isRunning, audioSetUp,
                        loopStarted, uncaught>>
         /\ UNCHANGED <<avatarVars, handVars, letterVars, micVars>>

\* mainLoop() as the animation-frame callback: it exists once startGame has
\* called it, and then robotAvatar is set
MainLoop(d, drift) ==
    /\ loopStarted
    /\ robotAvatar = "avatar"
    /\ Animate(d, drift)

AppNext ==
    \/ StartGame
    \/ \E glossWords \in GlossWords : HandleTextInput(glossWords)
    \/ \E d \in FrameSteps, drift \in ReadDrift : MainLoop(d, drift)

AppSpec == AppInit /\ [][AppNext]_vars

\* ------------------------------------------------------ speech recognition
\* toggleListening, the permission check and the recognition callbacks of
\* setupAudio, run against a SpeechRecognition object that behaves as the Web
\* Speech API states: start() throws while a session is under way, stop()
\* ends the session, an error event is followed by the end event, and the
\* object decides when a session is over.  Callbacks run one at a time.
MaxPending == 2
SpeechErrors == {"no-speech", "aborted", "network", "not-allowed"}

\* recognition.start(): whether it throws
StartThrows == recognition # "idle"

\* recognition.stop(): the state of the object after the call
Stopped == IF recognition \in {"starting", "running"} THEN "ending" ELSE recognition

\* toggleListening() up to its first await, or to its end on the stop path
ToggleClick ==
    /\ IF isListening
       THEN /\ isListening' = FALSE
            /\ recognition' = Stopped
            /\ lastClick' = "stop"
            /\ stopDuringCheck' = (pendingChecks > 0)
            /\ stopDuringTimer' = restartTimer
            /\ UNCHANGED pendingChecks
       ELSE /\ pendingChecks < MaxPending
            /\ isListening' = TRUE
            /\ pendingChecks' = pendingChecks + 1
            /\ lastClick' = "start"
            /\ stopDuringCheck' = FALSE
            /\ stopDuringTimer' = FALSE
            /\ UNCHANGED recognition
    /\ startFailed' = FALSE
    /\ micOp' = "click"
    /\ UNCHANGED <<restartTimer, sessionError>>
    /\ UNCHANGED <<avatarVars, handVars, letterVars, appVars>>

\* toggleListening() after `await checkMicrophonePermission()`
PermissionResolved(hasPermission) ==
    /\ pendingChecks > 0
    /\ pendingChecks' = pendingChecks - 1
    /\ IF ~hasPermission
       THEN /\ isListening' = FALSE
            /\ startFailed' = TRUE
            /\ micOp' = "permission-denied"
            /\ UNCHANGED <<recognition, sessionError>>
       ELSE IF StartThrows
       THEN /\ isListening' = FALSE
            /\ startFailed' = TRUE
            /\ micOp' = "start-failed"
            /\ UNCHANGED <<recognition, sessionError>>
       ELSE /\ recognition' = "starting"
            /\ sessionError' = "none"
            /\ micOp' = "start"
            /\ UNCHANGED <<isListening, startFailed>>
    /\ UNCHANGED <<restartTimer, lastClick, stopDuringCheck, stopDuringTimer>>
    /\ UNCHANGED <<avatarVars, handVars, letterVars, appVars>>

\* recognition.onstart
OnStart ==
    /\ recognition = "starting"
    /\ recognition' = "running"
    /\ isListening' = TRUE
    /\ micOp' = "onstart"
    /\ UNCHANGED <<restartTimer, pendingChecks, sessionError, lastClick,
                   stopDuringCheck, stopDuringTimer, startFailed>>
    /\ UNCHANGED <<avatarVars, handVars, letterVars, appVars>>

\* recognition.onresult with the transcript's gloss; continuous is false, so
\* the session is over after its result
OnResult(glossWords) ==
    /\ recognition = "running"
    /\ recognition' = "ending"
    /\ micOp' = "onresult"
    /\ IF robotAvatar = "avatar"
       THEN /\ Len(enqueued) + Len(glossWords) <= MaxEnqueued
            /\ animationQueue' = PushAll(animationQueue, glossWords)
            /\ enqueued' = enqueued \o glossWords
       ELSE UNCHANGED <<animationQueue, enqueued>>
    /\ UNCHANGED <<isAnimating, currentAnimationEnd, signDisplay,
                   leftHand, rightHand, wall, time,
                   started, tickNow, slotStart, prevSlotEnd, idleSinceDrain, labels>>
    /\ UNCHANGED <<isListening, restartTimer, pendingChecks, sessionError,
                   lastClick, stopDuringCheck, stopDuringTimer, startFailed>>
    /\ UNCHANGED <<handVars, letterVars, appVars>>

\* the session is over without a result and without an error
SessionOver ==
    /\ recognition = "running"
    /\ recognition' = "ending"
    /\ micOp' = "over"
    /\ UNCHANGED <<isListening, restartTimer, pendingChecks, sessionError,
                   lastClick, stopDuringCheck, stopDuringTimer, startFailed>>
    /\ UNCHANGED <<avatarVars, handVars, letterVars, appVars>>

\* recognition.onerror
OnError(error) ==
    /\ recognition \in {"starting", "running"}
    /\ recognition' = "ending"
    /\ sessionError' = error
    /\ isListening' = FALSE
    /\ micOp' = "onerror"
    /\ UNCHANGED <<restartTimer, pendingChecks, lastClick, stopDuringCheck,
                   stopDuringTimer, startFailed>>
    /\ UNCHANGED <<avatarVars, handVars, letterVars, appVars>>

\* recognition.onend
OnEnd ==
    /\ recognition = "ending"
    /\ recognition' = "idle"
    /\ restartTimer' = IF isListening THEN TRUE ELSE restartTimer
    /\ micOp' = "end"
    /\ UNCHANGED <<isListening, pendingChecks, sessionError, lastClick,
                   stopDuringCheck, stopDuringTimer, startFailed>>
    /\ UNCHANGED <<avatarVars, handVars, letterVars, appVars>>

\* the callback onend handed to setTimeout(..., 100)
RestartTimerFires ==
    /\ restartTimer
    /\ restartTimer' = FALSE
    /\ micOp' = "timer"
    /\ IF StartThrows
       THEN /\ isListening' = FALSE
            /\ startFailed' = TRUE
            /\ UNCHANGED <<recognition, sessionError>>
       ELSE /\ recognition' = "starting"
            /\ sessionError' = "none"
            /\ UNCHANGED <<isListening, startFailed>>
    /\ UNCHANGED <<pendingChecks, lastClick, stopDuringCheck, stopDuringTimer>>
    /\ UNCHANGED <<avatarVars, handVars, letterVars, appVars>>

MicNext ==
    \/ ToggleClick
    \/ \E hasPermission \in BOOLEAN : PermissionResolved(hasPermission)
    \/ OnStart
    \/ \E glossWords \in GlossWords : OnResult(glossWords)
    \/ SessionOver
    \/ \E error \in SpeechErrors : OnError(error)
    \/ OnEnd
    \/ RestartTimerFires

MicSpec == Init /\ [][MicNext]_vars

\* ================================================================== claims
\* the token of the latest slot
LastStarted == started[Len(started)]

\* C1: tokens begin playback in exactly the order they were enqueued and none
\* begins twice: the tokens started so far, followed by the tokens still
\* queued, are the tokens enqueued so far, in enqueue order.
C1_Fifo == started \o animationQueue = enqueued

\* three different tokens have begun playback, in the order they were pushed,
\* the last two having waited in the queue together
C1_Witness ==
    /\ started = <<HELLO, CHAR_A, CHAR_B>>
    /\ enqueued = started

\* C2: slots never overlap: a token begins playback only when nothing is
\* playing, and the end time recorded for the previous slot is at most the
\* wall-clock time of the frame that begins the next one.
C2_NoOverlap ==
    /\ [](Len(started) >= 2 => prevSlotEnd <= slotStart)
    /\ [][Len(started') > Len(started) => ~isAnimating]_vars

\* a second slot is running, begun after the first one's recorded end
C2_Witness ==
    /\ Len(started) >= 2
    /\ isAnimating
    /\ prevSlotEnd < slotStart

\* nothing playing, nothing queued, both hands tagged IDLE
AtRest ==
    /\ ~isAnimating
    /\ animationQueue = <<>>
    /\ leftHand.animState = IDLE
    /\ rightHand.animState = IDLE

\* C3: once input has stopped and frames keep coming, the queue drains and the
\* avatar comes to rest for good: from some point on nothing is playing,
\* nothing is queued and both hands' tags are IDLE.
C3_DrainToRest == <>[]AtRest

\* at rest after a backlog of several tokens, a word among them, has played out
C3_Witness ==
    /\ AtRest
    /\ idleSinceDrain
    /\ Len(started) >= 2
    /\ \E i \in 1..Len(started) : started[i] = HELLO

\* ---- what the claims expect of the four tokens, written out
LetterTokens == {CHAR_A, CHAR_B, CHAR_HASH}
LibraryLetters == {CHAR_A, CHAR_B}

\* ASLAlphabet entries 'a' and 'b'
ExpectedCurls(tok) ==
    IF tok = CHAR_A THEN Curls(100, 1500, 1500, 1500, 1500) ELSE Curls(1500, 0, 0, 0, 0)

ExpectedLabel(tok) ==
    IF tok = CHAR_A THEN <<"A">>
    ELSE IF tok = CHAR_B THEN <<"B">>
    ELSE IF tok = CHAR_HASH THEN <<"#">>
    ELSE tok

\* this step is a frame that begins a slot; the token it begins; the duration
\* it records (wall' is the Date.now() value the end time is computed from)
SlotBegins == Len(started') = Len(started) + 1
NewToken == started'[Len(started')]
RecordedDuration == currentAnimationEnd' - wall'

\* C4: throughout the slot of a library letter the right hand's five target
\* curls, at the end of every frame of the slot, are the library's curls.
C4_LetterShapeHeld ==
    (isAnimating /\ started # <<>> /\ LastStarted \in LibraryLetters)
        => rightHand.targetState.fingerCurls = ExpectedCurls(LastStarted)

\* C5 as claimed: every CHAR_ token, whatever its character, records a slot
\* strictly shorter than a word's.
C5_EveryLetterShorter ==
    [][(SlotBegins /\ NewToken \in LetterTokens) => RecordedDuration < WordDuration]_vars

\* C5 amended: a CHAR_ token whose character is in the library records the
\* letter duration, strictly shorter than the word duration every other token
\* records, a CHAR_ token with an unknown character included.
C5_LibraryLetterShorter ==
    [][SlotBegins =>
          /\ NewToken \in LibraryLetters =>
                (RecordedDuration = LetterDuration /\ RecordedDuration < WordDuration)
          /\ NewToken \notin LibraryLetters => RecordedDuration = WordDuration]_vars

\* an unknown-character slot is running after a library-letter slot
C5_Witness ==
    /\ isAnimating
    /\ Len(started) >= 2
    /\ LastStarted = CHAR_HASH
    /\ started[Len(started) - 1] = CHAR_A

\* C6 as claimed: during the slot of any CHAR_ token the left hand's tag is IDLE.
C6_LeftIdleEveryLetter ==
    (isAnimating /\ started # <<>> /\ LastStarted \in LetterTokens)
        => leftHand.animState = IDLE

\* C6 amended: during the slot of a library letter the left hand's tag is IDLE
\* and the right hand's is POSE, whatever they were before; a CHAR_ token with
\* an unknown character leaves both tags as they were.
C6_LeftIdleLibraryLetter ==
    /\ []((isAnimating /\ started # <<>> /\ LastStarted \in LibraryLetters)
            => (leftHand.animState = IDLE /\ rightHand.animState = POSE))
    /\ [][(SlotBegins /\ NewToken = CHAR_HASH)
            => (leftHand'.animState = leftHand.animState
                /\ rightHand'.animState = rightHand.animState)]_vars

\* a library letter is playing right after a word that had tagged both hands
C6_Witness ==
    /\ isAnimating
    /\ Len(started) >= 2
    /\ LastStarted \in LibraryLetters
    /\ started[Len(started) - 1] = HELLO
    /\ leftHand.animState = IDLE

\* C7: during a slot the label a viewer reads is the token for a word and the
\* upper-cased character for a CHAR_ token (C for CHAR_c); HELLO, CHAR_A,
\* CHAR_B played back to back show HELLO, A, B and then nothing.
C7_Labels ==
    /\ DisplayText(CHAR_ \o <<"c">>) = <<"C">>
    /\ (isAnimating /\ started # <<>>)
          => VisibleLabel(signDisplay) = ExpectedLabel(LastStarted)
    /\ \A i \in 1..Len(labels) :
          labels[i] = <<>> \/ \E j \in 1..Len(started) : labels[i] = ExpectedLabel(started[j])
    /\ (started = <<HELLO, CHAR_A, CHAR_B>> /\ idleSinceDrain /\ Len(labels) = 4)
          => labels = <<HELLO, <<"A">>, <<"B">>, <<>>>>

\* the three tokens have played and the label has gone blank
C7_Witness ==
    /\ labels = <<HELLO, <<"A">>, <<"B">>, <<>>>>
    /\ VisibleLabel(signDisplay) = <<>>

\* C8 as claimed: idle after a drain, the label's text string is empty.
C8_LabelTextEmpty == idleSinceDrain => signDisplay.textContent = <<>>

\* C8 amended: idle after a drain, the label is hidden (opacity 0) and its text
\* string still holds what the last token displayed.
C8_LabelHidden ==
    idleSinceDrain =>
        (signDisplay.opacity = "0" /\ signDisplay.textContent = ExpectedLabel(LastStarted))

\* idle after the drain that followed a letter slot
C8_Witness == idleSinceDrain /\ ~isAnimating /\ LastStarted = CHAR_B

\* C9: while a slot is active no other token begins, and up to and including a
\* frame whose wall-clock time equals the recorded end time the slot stays
\* active and neither hand's tag changes, whatever is enqueued meanwhile.
C9_NoInterruption ==
    [][isAnimating =>
          /\ started' = started
          /\ tickNow' <= currentAnimationEnd =>
                /\ isAnimating'
                /\ leftHand'.animState = leftHand.animState
                /\ rightHand'.animState = rightHand.animState]_vars

\* a frame taken exactly at the recorded end time, a token waiting, still playing
C9_Witness ==
    /\ isAnimating
    /\ tickNow = currentAnimationEnd
    /\ animationQueue # <<>>

\* C10: an enqueue appends the given tokens to the back of the queue in order,
\* duplicates included, and changes neither the playing flag, the recorded end
\* time, the label nor either hand.
C10_EnqueueOnlyAppends ==
    [][enqueued' # enqueued =>
          /\ animationQueue' =
                animationQueue \o SubSeq(enqueued', Len(enqueued) + 1, Len(enqueued'))
          /\ UNCHANGED <<isAnimating, currentAnimationEnd, signDisplay,
                         leftHand, rightHand>>]_vars

\* the same token waits twice in the queue behind a running slot
C10_Witness ==
    /\ isAnimating
    /\ Len(animationQueue) = 2
    /\ animationQueue[1] = animationQueue[2]

\* ---- one hand on its own
UnknownTags == {XYZZY, QUX, ZORK, WOMBAT}

\* the target a hand fresh from construction gets for a tag at elapsed time t
FreshTarget(tag, t, random) ==
    updateLogic([NewHand EXCEPT !.animState = tag], t, random).targetState

\* C11: after a tick the whole target pose is what the tag and the elapsed
\* time alone yield: the same as on a hand without history, whatever the
\* random source returns.
C11_TargetStateless ==
    lastOp = "tick" =>
        \A random \in Draws : hand.targetState = FreshTarget(hand.animState, handTime, random)

\* C12: for a tag outside the catalog the target pose after a tick is the one
\* a hand without history gets for the same tag and elapsed time, whatever the
\* random source returns.
C12_FallbackDeterministic ==
    (lastOp = "tick" /\ hand.animState \in UnknownTags) =>
        \A random \in Draws : hand.targetState = FreshTarget(hand.animState, handTime, random)

\* a fallback tick has just replaced targets another gesture had left behind
C12_Witness ==
    /\ lastOp = "tick"
    /\ hand.animState = WOMBAT
    /\ handTriggers = 2
    /\ handTicks >= 2
    /\ steady["index"] = 0

\* character code of the first character and length of the four unknown tags
FirstCode(tag) ==
    IF tag = XYZZY THEN 88 ELSE IF tag = QUX THEN 81 ELSE IF tag = ZORK THEN 90 ELSE 87

TagLength(tag) ==
    IF tag = XYZZY THEN 5 ELSE IF tag = QUX THEN 3 ELSE IF tag = ZORK THEN 4 ELSE 6

\* the hand shape of each archetype: open flat hand, index point, fist, thumbs-up
ArchetypeCurls(n) ==
    IF n = 0 THEN Curls(0, 0, 0, 0, 0)
    ELSE IF n = 1 THEN Curls(1500, 0, 1500, 1500, 1500)
    ELSE IF n = 2 THEN Curls(1500, 1500, 1500, 1500, 1500)
    ELSE Curls(0, 1500, 1500, 1500, 1500)

\* the oscillation sin(t * speed) * 0.5 and the wrist axis that carries it:
\* x for the wave, z for the point, x at 0.7 for the fist, y for the thumbs-up
Oscillation(t, speed) == (sin(t * speed) * 500) \div 1000

\* C13: for a tag outside the catalog the hand shape is the archetype numbered
\* (character code of the first character) mod 4, all five curls set, and the
\* wrist oscillates at speed (length of the tag mod 5) + 4.
C13_FallbackArchetype ==
    (lastOp = "tick" /\ hand.animState \in UnknownTags) =>
        LET n == FirstCode(hand.animState) % 4
            speed == (TagLength(hand.animState) % 5) + 4
            osc == Oscillation(handTime, speed)
            w == hand.targetState.wristRot
        IN  /\ hand.targetState.fingerCurls = ArchetypeCurls(n)
            /\ n = 0 => w[1] = osc
            /\ n = 1 => w[3] = osc
            /\ n = 2 => w[1] = (osc * 700) \div 1000
            /\ n = 3 => w[2] = osc

\* a thumbs-up fallback oscillating at speed 5 has replaced a different shape
C13_Witness ==
    /\ lastOp = "tick"
    /\ hand.animState = WOMBAT
    /\ hand.targetState.fingerCurls = Curls(0, 1500, 1500, 1500, 1500)
    /\ hand.targetState.wristRot[2] # 0
    /\ steady["index"] = 0
    /\ handTicks >= 2

\* a hand with its trigger timestamp wiped
Untimed(h) == [h EXCEPT !.animStartTime = 0]

\* C14: triggering the tag the hand already has changes neither the targets,
\* the current pose nor the skeleton, and every later tick, at any elapsed
\* time, yields the same hand whatever trigger timestamp was recorded.
C14_RetriggerIdempotent ==
    /\ [][lastOp' = "retrigger" =>
            /\ hand'.animState = hand.animState
            /\ hand'.targetState = hand.targetState
            /\ hand'.currentState = hand.currentState
            /\ hand'.mesh = hand.mesh]_vars
    /\ [](\A d \in HandSteps, random \in Draws :
            Untimed(update(hand, handTime + d, random))
                = update(Untimed(hand), handTime + d, random))

\* a gesture that has been ticking was triggered again, at a later timestamp
C14_Witness ==
    /\ lastOp = "retrigger"
    /\ hand.animState = DANCE
    /\ hand.animStartTime > StartWall
    /\ handTicks >= 2
    /\ steady["index"] >= 1

WristAxes == {"x", "y", "z"}

\* C15: a tick that starts with NaN in an axis of the current wrist rotation
\* ends with the current wrist rotation at (0,0,0) and the wrist joint
\* carrying that value; the tick runs to its end.
C15_NaNRecovery ==
    (lastOp = "tick" /\ nanBefore \cap WristAxes # {}) =>
        /\ hand.currentState.wristRot = <<0, 0, 0>>
        /\ hand.mesh.wrist = <<0, 0, 0>>
        /\ hand.mesh.segments = [f \in Fingers |->
                                    [i \in 1..3 |-> hand.currentState.fingerCurls[f]]]

\* a tick of a moving gesture has recovered from NaN in the y axis
C15_Witness ==
    /\ lastOp = "tick"
    /\ nanBefore = {"y"}
    /\ hand.animState = WOMBAT
    /\ hand.targetState.wristRot[2] # 0
    /\ hand.currentState.wristRot = <<0, 0, 0>>
    /\ consoleErrors = 1

\* C16: after a tick no component of the current pose and no joint of the
\* skeleton is NaN, whatever was NaN before it.
C16_NoNaNAfterTick ==
    lastOp = "tick" =>
        /\ \A c \in Comps : ~isNaN(Cur(hand, c))
        /\ \A i \in 1..3 : ~isNaN(hand.mesh.wrist[i])
        /\ \A f \in Fingers : \A i \in 1..3 : ~isNaN(hand.mesh.segments[f][i])

C18_MissKeepsHands ==
    [][(SlotBegins /\ NewToken = CHAR_HASH) =>
          /\ leftHand' = Steering(update(Steered(leftHand), time', NoDraws))
          /\ rightHand' = Steering(update(Steered(rightHand), time', NoDraws))
          /\ leftHand'.animState = leftHand.animState
          /\ rightHand'.animState = rightHand.animState
          /\ VisibleLabel(signDisplay') = <<"#">>
          /\ isAnimating'
          /\ currentAnimationEnd' = wall' + WordDuration
          /\ currentAnimationEnd' > tickNow']_vars

\* the unknown character is on the label while both hands still sign HELLO
C18_Witness ==
    /\ isAnimating
    /\ Len(started) >= 2
    /\ LastStarted = CHAR_HASH
    /\ leftHand.animState = HELLO
    /\ rightHand.animState = HELLO
    /\ VisibleLabel(signDisplay) = <<"#">>

\* C19: the two hands carry the same tag, except that the left is IDLE and the
\* right is POSE after a letter was applied; during a word's slot both carry
\* the word.
C19_Lockstep ==
    /\ \/ leftHand.animState = rightHand.animState
       \/ (leftHand.animState = IDLE /\ rightHand.animState = POSE)
    /\ (isAnimating /\ started # <<>> /\ LastStarted = HELLO) =>
          (leftHand.animState = HELLO /\ rightHand.animState = HELLO)

\* a word is playing on both hands right after a letter had split them
C19_Witness ==
    /\ isAnimating
    /\ Len(started) >= 2
    /\ LastStarted = HELLO
    /\ started[Len(started) - 1] \in LibraryLetters
    /\ leftHand.animState = HELLO
    /\ rightHand.animState = HELLO

\* ---- the letter lookup
AlphaNumeric ==
    {LowerChars[i] : i \in 1..26} \cup {UpperChars[i] : i \in 1..26}
        \cup {DigitChars[i] : i \in 1..10}

\* the character string a CHAR_ token carries after the prefix
KeyOf(type) == SubSeq(type, Len(CHAR_) + 1, Len(type))

\* C20: the lookup finds a pose exactly for the single characters a-z, A-Z and
\* 0-9; upper and lower case give the same pose, and 0 gives the pose of o.
C20_LookupExact ==
    /\ letterToken # <<>> =>
          (letterFound <=> (Len(KeyOf(letterToken)) = 1
                             /\ KeyOf(letterToken)[1] \in AlphaNumeric))
    /\ (letterFound /\ Len(KeyOf(letterToken)) = 1) =>
          letterPose = Lookup(toLowerCase(KeyOf(letterToken)))
    /\ letterToken = CHAR_ \o <<"0">> => letterPose = Lookup(<<"o">>)

\* ---- the hand's operations, one by one
\* C21: hand.triggerAnimation(tag) sets the tag and the trigger timestamp and
\* nothing else: target pose, current pose and skeleton are what they were
\* before the call.
C21_TriggerFrame ==
    [][\A type \in HandTags :
          HandTrigger(type) =>
              /\ hand'.animState = type
              /\ hand'.animStartTime = StartWall + handTime
              /\ hand'.targetState = hand.targetState
              /\ hand'.currentState = hand.currentState
              /\ hand'.mesh = hand.mesh
              /\ DOMAIN hand' = DOMAIN hand]_vars

\* a fist gesture was triggered on a dancing hand: the tag is the new one, the
\* targets are still those of the dance
C21_Witness ==
    /\ lastOp = "trigger"
    /\ hand.animState = ZORK
    /\ hand.animStartTime > StartWall
    /\ hand.targetState.fingerCurls = Curls(0, 500, 500, 0, 0)
    /\ hand.targetState.wristRot # <<0, 0, 0>>

\* C22: poseHand(pose) sets the tag to POSE, the five target curls to the five
\* values of pose and the wrist target to (-0.2, 0, 0); the current pose, the
\* skeleton and the trigger timestamp stay.
C22_PoseHand ==
    [][\A key \in PoseKeys :
          HandPose(key) =>
              /\ hand'.animState = POSE
              /\ \A f \in Fingers :
                    hand'.targetState.fingerCurls[f] = ASL_ALPHABET[key[1]][f]
              /\ hand'.targetState.wristRot = <<0 - 200, 0, 0>>
              /\ hand'.currentState = hand.currentState
              /\ hand'.mesh = hand.mesh
              /\ hand'.animStartTime = hand.animStartTime]_vars

\* the letter b was posed on a hand that is part-way into a triggered gesture
C22_Witness ==
    /\ lastOp = "pose"
    /\ hand.animState = POSE
    /\ hand.targetState.fingerCurls = ASL_ALPHABET["b"]
    /\ hand.targetState.fingerCurls # ASL_ALPHABET["a"]
    /\ hand.targetState.wristRot = <<0 - 200, 0, 0>>
    /\ hand.animStartTime > StartWall
    /\ hand.currentState.fingerCurls # Curls(0, 0, 0, 0, 0)

\* a hand with its current pose and skeleton put back to those of a new hand
Rested(h) == [h EXCEPT !.currentState = NewHand.currentState,
                       !.mesh = NewHand.mesh]

C24_SkeletonMirrors ==
    lastOp = "tick" =>
        /\ hand.mesh.wrist = hand.currentState.wristRot
        /\ \A f \in Fingers : \A i \in 1..3 :
              hand.mesh.segments[f][i] = hand.currentState.fingerCurls[f]

\* after two ticks of a posed letter the joints carry curls that differ from
\* finger to finger, and a tilted wrist
C24_Witness ==
    /\ lastOp = "tick"
    /\ hand.animState = POSE
    /\ handTicks >= 2
    /\ hand.mesh.wrist # <<0, 0, 0>>
    /\ hand.mesh.segments["index"][1] # 0
    /\ hand.mesh.segments["index"][1] = hand.mesh.segments["index"][3]
    /\ hand.mesh.segments["index"][1] # hand.mesh.segments["thumb"][1]
    /\ ~isNaN(hand.mesh.segments["index"][1])

\* ---- construction
\* C25: constructing the avatar with a container id the page lacks throws at
\* once and yields no avatar: the global stays null, neither the audio set-up
\* nor the frame loop starts, no frame ever runs and no input reaches a queue.
C25_ConstructionFails ==
    /\ [](\A doc \in Documents \cup {{}, {ContainerId}} :
            LET res == RobotAvatarConstructor(doc, ContainerId)
            IN  /\ res.thrown <=> ContainerId \notin doc
                /\ res.thrown => DOMAIN res = {"thrown", "message"})
    /\ []((isRunning /\ ContainerId \notin document) =>
            /\ uncaught = "Container canvas-container not found"
            /\ robotAvatar = "null"
            /\ ~audioSetUp
            /\ ~loopStarted
            /\ animationQueue = <<>> /\ ~isAnimating /\ currentAnimationEnd = 0
            /\ leftHand = Steering(NewHand) /\ rightHand = Steering(NewHand)
            /\ signDisplay = SignElement(FALSE)
            /\ NoHistory)
    /\ [][ContainerId \notin document => UNCHANGED avatarVars]_vars

\* the page lacks the container, startGame has failed, and text typed since
\* then went nowhere
C25_Witness ==
    /\ ContainerId \notin document
    /\ isRunning
    /\ uncaught # ""
    /\ robotAvatar = "null"
    /\ dropped = MaxDropped

\* ---- the frame, step by step
\* a step is a frame exactly when the elapsed clock has been read again
IsFrame == time' # time

\* C26: a frame that takes the front token off the queue begins that token's
\* playback in the same frame: the token is the one startAnimation runs on,
\* playing is true after the frame, the end time recorded lies a slot
\* duration after the clock reading, and the label shows the token's text.
\* No token in the queue is the empty string.
C26_ShiftBegins ==
    /\ [][Len(animationQueue') < Len(animationQueue) =>
            /\ animationQueue' = Tail(animationQueue)
            /\ started' = Append(started, Head(animationQueue))
            /\ ~isAnimating /\ isAnimating'
            /\ currentAnimationEnd' - wall' \in {LetterDuration, WordDuration}
            /\ currentAnimationEnd' > tickNow'
            /\ currentAnimationEnd' > currentAnimationEnd
            /\ signDisplay'.opacity = "1"
            /\ signDisplay'.textContent = DisplayText(Head(animationQueue))
            /\ labels' = Append(labels, DisplayText(Head(animationQueue)))]_vars
    /\ [](\A i \in 1..Len(animationQueue) : Len(animationQueue[i]) > 0)

\* the frame just taken has begun the second token while a third one waits
C26_Witness ==
    /\ isAnimating
    /\ slotStart = tickNow
    /\ Len(started) = 2
    /\ Len(animationQueue) = 1
    /\ signDisplay.textContent = DisplayText(LastStarted)
    /\ currentAnimationEnd > tickNow

\* C27: with frames coming and the clock advancing, the i-th token enqueued
\* becomes the i-th token to begin playback: tokens leave the queue only by
\* beginning playback, in enqueue order, and again and again every token
\* enqueued so far has begun.
C27_EveryTokenStarts ==
    /\ [](/\ Len(started) + Len(animationQueue) = Len(enqueued)
          /\ \A i \in 1..Len(started) : started[i] = enqueued[i])
    /\ []<>(started = enqueued)

\* the token enqueued last, behind two others, has begun playback
C27_Witness ==
    /\ Len(enqueued) = MaxEnqueued
    /\ started = enqueued
    /\ isAnimating
    /\ slotStart = tickNow
    /\ slotStart >= StartWall + 2 * LetterDuration

\* C28: a frame whose wall-clock time has passed the recorded end time of the
\* slot playing marks not-playing; with the queue empty it hides the label and
\* sets both tags to IDLE, with tokens waiting it leaves both tags and the
\* label as they were, and they stay so until the next token begins.
C28_SlotEnd ==
    /\ [][(IsFrame /\ isAnimating /\ tickNow' > currentAnimationEnd) =>
            /\ ~isAnimating'
            /\ animationQueue' = animationQueue
            /\ started' = started
            /\ IF animationQueue = <<>>
               THEN /\ leftHand'.animState = IDLE
                    /\ rightHand'.animState = IDLE
                    /\ signDisplay'.opacity = "0"
               ELSE /\ leftHand'.animState = leftHand.animState
                    /\ rightHand'.animState = rightHand.animState
                    /\ signDisplay' = signDisplay]_vars
    /\ []((~isAnimating /\ animationQueue # <<>> /\ started # <<>>
              /\ ~idleSinceDrain) =>
            /\ signDisplay.opacity = "1"
            /\ signDisplay.textContent = DisplayText(LastStarted)
            /\ LastStarted = HELLO =>
                  (leftHand.animState = HELLO /\ rightHand.animState = HELLO)
            /\ LastStarted \in LibraryLetters =>
                  (leftHand.animState = IDLE /\ rightHand.animState = POSE))

\* a word's slot has ended with a token waiting: nothing plays, the word is
\* still on the label and on both hands
C28_Witness ==
    /\ ~isAnimating
    /\ animationQueue # <<>>
    /\ started # <<>>
    /\ LastStarted = HELLO
    /\ tickNow > currentAnimationEnd
    /\ leftHand.animState = HELLO
    /\ rightHand.animState = HELLO
    /\ VisibleLabel(signDisplay) = HELLO

\* the duration the slot of a token is given
PaceOf(type) == IF type \in LibraryLetters THEN LetterDuration ELSE WordDuration

\* C29 as claimed: the end time recorded is the `now` of the frame that
\* began the slot plus the duration, and a slot is ended only by a frame
\* whose `now` is strictly greater than the end time.
C29_EndFromTickNow ==
    /\ [][SlotBegins => currentAnimationEnd' = tickNow' + PaceOf(NewToken)]_vars
    /\ [][(isAnimating /\ ~isAnimating') => tickNow' > currentAnimationEnd]_vars

\* C29, amended: the end time recorded is the clock reading startAnimation
\* takes itself, at or after the frame's `now`, plus the duration; a slot is
\* ended only by a frame whose `now` is strictly greater than the end time.
C29_EndFromStartRead ==
    /\ [][SlotBegins =>
            /\ wall' >= tickNow'
            /\ currentAnimationEnd' = wall' + PaceOf(NewToken)
            /\ currentAnimationEnd' >= tickNow' + PaceOf(NewToken)]_vars
    /\ [][(isAnimating /\ ~isAnimating') =>
            (IsFrame /\ tickNow' > currentAnimationEnd)]_vars

\* a letter's slot was begun by a frame whose second clock reading came later
\* than its first
C29_Witness ==
    /\ isAnimating
    /\ slotStart = tickNow
    /\ LastStarted \in LibraryLetters
    /\ wall > tickNow
    /\ currentAnimationEnd = wall + LetterDuration
    /\ currentAnimationEnd > tickNow + LetterDuration

\* ---- the two clocks
\* trigger timestamps and elapsed-clock readings to compare against
Stamps == {0, wall, wall + 1}
ElapsedSamples == {0, time + 350}

\* what a frame decides about slots: the queue, the playback state, the label
SlotOutcome(f) ==
    [animationQueue |-> f.animationQueue, isAnimating |-> f.isAnimating,
     currentAnimationEnd |-> f.currentAnimationEnd, signDisplay |-> f.signDisplay,
     starts |-> f.starts, nextAnim |-> f.nextAnim, drained |-> f.drained,
     leftTag |-> f.leftHand.animState, rightTag |-> f.rightHand.animState]

\* the tags and targets a frame leaves on the two hands
Targets(f) ==
    [leftTag |-> f.leftHand.animState, rightTag |-> f.rightHand.animState,
     left |-> f.leftHand.targetState, right |-> f.rightHand.targetState]

\* C30: the two clocks do not interfere.  The targets a tick computes are the
\* same whatever trigger timestamp the hand holds, and the same whatever the
\* frame's later wall-clock reading is; what a frame decides about slots
\* (shift, start, end time, finish, drain, label, tags) is the same whatever
\* the elapsed clock reads.
C30_ClocksApart ==
    /\ \A h \in {leftHand, rightHand}, t \in ElapsedSamples :
          \E ref \in {updateSteering(h, t, NoDraws)} :
              /\ ref.animStartTime = h.animStartTime
              /\ \A stamp \in Stamps :
                    updateSteering([h EXCEPT !.animStartTime = stamp],
                                   t, NoDraws).targetState = ref.targetState
    /\ \A d \in FrameSteps :
          \E ref \in {animate(AvatarFields, animationQueue,
                              wall + d, wall + d, wall + d - StartWall)} :
              /\ \A drift \in ReadDrift :
                    Targets(animate(AvatarFields, animationQueue, wall + d,
                                    wall + d + drift, wall + d - StartWall))
                        = Targets(ref)
              /\ \A t \in ElapsedSamples :
                    SlotOutcome(animate(AvatarFields, animationQueue,
                                        wall + d, wall + d, t))
                        = SlotOutcome(ref)

\* a word is waving on both hands, triggered at a wall-clock time that the
\* second clock reading had carried away from the frame's own
C30_Witness ==
    /\ isAnimating
    /\ LastStarted = HELLO
    /\ leftHand.animState = HELLO
    /\ leftHand.animStartTime > tickNow
    /\ leftHand.animStartTime - StartWall # time
    /\ leftHand.targetState.wristRot # <<0, 0, 0>>
    /\ Len(started) >= 2

\* ---- the catalog's gestures
\* the idle-sway target at elapsed time t
SwayTarget(t) ==
    LET sway == (sin((t * 3) \div 2) * 50) \div 1000
        four == 100 + (sin(t + 2000) * 50) \div 1000
        thumb == 100 + (sin(t) * 50) \div 1000
    IN  [wristRot |-> <<sway \div 2, 0, sway>>,
         fingerCurls |-> Curls(thumb, four, four, four, four)]

\* C31: a tick of a hand tagged IDLE or POSE leaves the idle-sway target of
\* its elapsed time, the same for both tags and whatever the targets were
\* before: wrist x half of wrist z and y 0, one curl value within 0.05 of 0.1
\* on index, middle, ring and pinky, and the thumb's own value.
C31_IdleSway ==
    /\ (lastOp = "tick" /\ hand.animState \in {IDLE, POSE}) =>
          LET w == hand.targetState.wristRot
              c == hand.targetState.fingerCurls
          IN  /\ hand.targetState = SwayTarget(handTime)
              /\ w[2] = 0
              /\ Abs(2 * w[1] - w[3]) <= 1
              /\ c["index"] = c["middle"] /\ c["middle"] = c["ring"]
              /\ c["ring"] = c["pinky"]
              /\ \A f \in Fingers : c[f] >= 50 /\ c[f] <= 150
    /\ \A d \in HandSteps, tag \in {IDLE, POSE} :
          updateLogic([hand EXCEPT !.animState = tag], handTime + d, NoDraws).targetState
              = SwayTarget(handTime + d)

\* a tick has replaced a posed letter's targets, on a hand that had been
\* triggered before, by the sway: four equal curls, another one on the thumb
C31_Witness ==
    /\ lastOp = "tick"
    /\ hand.animState = POSE
    /\ hand.animStartTime > StartWall
    /\ hand.targetState.wristRot[3] # 0
    /\ hand.targetState.fingerCurls["index"] = hand.targetState.fingerCurls["pinky"]
    /\ hand.targetState.fingerCurls["thumb"] # hand.targetState.fingerCurls["index"]
    /\ steady["index"] = 0

\* C34: after a tick a hand tagged HOUSE has the target a HOME hand gets at
\* that elapsed time, the roof shape with wrist z at 0.3 and a flat hand; a
\* hand tagged SCHOOL has the clapping target, wrist x = 0.4 * |sin(8 t)|.
C34_CaseGroups ==
    /\ (lastOp = "tick" /\ hand.animState = HOUSE) =>
          /\ hand.targetState = FreshTarget(HOME, handTime, NoDraws)
          /\ hand.targetState.wristRot[3] = 300
          /\ hand.targetState.fingerCurls = Curls(0, 0, 0, 0, 0)
    /\ (lastOp = "tick" /\ hand.animState = SCHOOL) =>
          /\ hand.targetState.wristRot
                = <<(Abs(sin(handTime * 8)) * 400) \div 1000, 0, 0>>
          /\ hand.targetState.fingerCurls = Curls(0, 0, 0, 0, 0)

\* ---- the queue and the slot boundaries
\* C32: a frame takes at most one token off the queue, the front one, and
\* only when nothing was playing at its start; while a slot is active the
\* tokens queued stay queued; no other step shortens the queue.
C32_AtMostOneShift ==
    [][/\ Len(animationQueue') >= Len(animationQueue) - 1
       /\ IsFrame => \/ animationQueue' = animationQueue
                     \/ (animationQueue # <<>> /\ animationQueue' = Tail(animationQueue))
       /\ isAnimating =>
             /\ Len(animationQueue') >= Len(animationQueue)
             /\ SubSeq(animationQueue', 1, Len(animationQueue)) = animationQueue
       /\ Len(animationQueue') < Len(animationQueue) => (IsFrame /\ ~isAnimating)
      ]_vars

\* one token has been taken off a queue of three; a later frame of its slot
\* has left the other two where they were
C32_Witness ==
    /\ isAnimating
    /\ Len(started) = 1
    /\ Len(animationQueue) = 2
    /\ slotStart < tickNow
    /\ started \o animationQueue = enqueued

\* C33: the frame that begins a slot leaves it playing, its end time ahead of
\* the frame's `now`; and a frame that finds nothing playing and a token
\* queued begins that token, so that "not playing, queue non-empty" never
\* outlasts one frame.
C33_StartEndApart ==
    /\ [][SlotBegins =>
            /\ isAnimating'
            /\ currentAnimationEnd' > tickNow'
            /\ ~idleSinceDrain']_vars
    /\ [][(IsFrame /\ ~isAnimating /\ animationQueue # <<>>) =>
            /\ SlotBegins
            /\ NewToken = Head(animationQueue)
            /\ isAnimating']_vars
    /\ [][(IsFrame /\ isAnimating /\ ~isAnimating') => ~SlotBegins]_vars

\* the second token began on the frame after the one that ended the first
\* token's slot
C33_Witness ==
    /\ isAnimating
    /\ Len(started) = 2
    /\ animationQueue = <<>>
    /\ slotStart = tickNow
    /\ prevSlotEnd > StartWall
    /\ slotStart > prevSlotEnd + Largest(FrameSteps)

\* ---- listening
\* the user's latest click switched listening on and no start attempt has
\* failed since
ListeningWanted == lastClick = "start" /\ ~startFailed

\* C35: while the user has listening switched on, every end of a recognition
\* session, one that ended with a no-speech or aborted error included,
\* schedules the restart; isListening goes from true to false only on a
\* toggle click and on a failed start attempt.
C35_AutoRestart ==
    /\ [][(micOp' = "end" /\ recognition = "ending" /\ ListeningWanted
              /\ sessionError \in {"none", "no-speech", "aborted"}) =>
            restartTimer']_vars
    /\ [][(isListening /\ ~isListening') =>
            micOp' \in {"click", "start-failed", "permission-denied", "timer"}]_vars

\* C36: when the user's stop click came while the restart timer was pending,
\* the timer firing starts nothing and leaves isListening false.
C36_TimerAfterStop ==
    [][(micOp' = "timer" /\ restartTimer /\ stopDuringTimer) =>
          /\ recognition' = recognition
          /\ ~isListening']_vars

\* no callback of main.ts is pending and none is due from a session ending
Quiescent ==
    /\ pendingChecks = 0
    /\ ~restartTimer
    /\ recognition \in {"idle", "running"}

\* C37: after a stop click that came while a start click's permission check
\* was pending, once every callback has run, recognition is not running and
\* isListening is false.
C37_LastClickWins ==
    (stopDuringCheck /\ Quiescent) =>
        (recognition = "idle" /\ ~isListening)

====
